---------------------------- MODULE Spec2Model ----------------------------
(***************************************************************************)
(* The session pallet (frame/session/src/lib.rs): registration and purge   *)
(* of session keys, the key ownership index, session rotation and the      *)
(* bookkeeping of the queued validator set.                                *)
(*                                                                         *)
(* Conventions.  Option<T> is a sequence of length at most one: <<>> is    *)
(* None and <<x>> is Some(x).  A key bundle (T::Keys) is a tuple holding   *)
(* one raw key per key type id, indexed by the key type id.  A Vec is a    *)
(* sequence.                                                               *)
(***************************************************************************)
EXTENDS Integers, Sequences, FiniteSets, TLC

\* ------------------------------------------------------------------ bounds
\* raw keys are the numbers 0..MaxKey (0 is the raw key of the default bundle)
MaxKey == 1
\* longest genesis `config.keys` list
MaxGenesis == 2
\* the net number of consumer references held on one account stays within
\* -MaxRef..MaxRef
MaxRef == 2
\* longest validator list the SessionManager returns
MaxRoster == 1
\* rotate_session is not called once CurrentIndex has reached MaxSession
MaxSession == 2
\* validators in the largest set of the disabling specification
MaxActive == 3
\* the largest BlockNumber: a stand-in for the largest value of the block number
\* type, and the last block that is initialised
MaxBlockNumber == 15
\* periods and offsets of the periodic policy, besides the named examples
MaxPeriod == 3
MaxOffset == 4
\* justifications are those of rounds 1..MaxRound; at most MaxEmit are emitted to a
\* subscriber
MaxRound == 2
MaxEmit == 4

\* ------------------------------------------------------- runtime configuration
\* T::ValidatorId (no account converts to validator 3)
ValidatorId == {1, 2, 3}
\* T::AccountId
AccountId == {1, 2, 3, 4}
\* T::ValidatorIdOf: accounts 1 and 3 both convert to validator 1, account 2
\* to validator 2, account 4 has no associated validator id
ValidatorIdOf(account) ==
  CASE account = 1 -> <<1>>
    [] account = 2 -> <<2>>
    [] account = 3 -> <<1>>
    [] OTHER -> <<>>
\* T::Keys::key_ids(), in order
key_ids == <<1, 2>>
KeyTypeId == {key_ids[i] : i \in 1..Len(key_ids)}
RawKey == 0..MaxKey
\* T::Keys
Keys == [KeyTypeId -> RawKey]
\* <T::Keys as Default>::default()
DefaultKeys == [id \in KeyTypeId |-> 0]

None == <<>>
Some(x) == <<x>>
\* OpaqueKeys::get_raw
get_raw(keys, id) == keys[id]
\* Option::unwrap_or_default on Option<T::Keys>
unwrap_or_default(o) == IF o = None THEN DefaultKeys ELSE o[1]

\* the sequences over S of length at most n
SeqUpTo(S, n) == UNION {[1..k -> S] : k \in 0..n}

VARIABLES
  built,              \* TRUE once the genesis build has run
  NextKeys,           \* storage NextKeys: ValidatorId -> Option<Keys>
  KeyOwner,           \* storage KeyOwner: (KeyTypeId, raw key) -> Option<ValidatorId>
  consumers,          \* per account: consumer references taken minus released
  Validators,         \* storage Validators: Vec<ValidatorId>
  CurrentIndex,       \* storage CurrentIndex
  QueuedChanged,      \* storage QueuedChanged
  QueuedKeys,         \* storage QueuedKeys: Vec<(ValidatorId, Keys)>
  DisabledValidators, \* storage DisabledValidators: Vec<u32>
  result,             \* the last call and what it returned
  hook,               \* the SessionHandler call the last operation made, if any
  announced,          \* the list last handed to the SessionHandler as the coming one:
                      \* on_genesis_session's list, then on_new_session's queued list
  planned,            \* what SessionManager::new_session answered for the current
                      \* session (planned.cur) and for the next one (planned.next)
  rotations,          \* how many times rotate_session has run
  last_active,        \* the list last handed to the SessionHandler as the one in use:
                      \* on_genesis_session's list, then on_new_session's active list
  trace,              \* the calls made to the SessionManager so far, in order
  chain,              \* Period and Offset of PeriodicSessions, and the number of the
                      \* next block to initialise
  rpc,                \* GrandpaRpc: the justification subscription, its stream, its
                      \* sink, and what was emitted and sent so far
  before              \* the stores before the last successful set_keys

keyVars == <<NextKeys, KeyOwner, consumers>>
sessionVars == <<Validators, CurrentIndex, QueuedChanged, QueuedKeys, DisabledValidators>>
ghostVars == <<announced, planned, rotations, last_active, trace, chain, rpc>>
vars == <<built, NextKeys, KeyOwner, consumers, Validators, CurrentIndex, QueuedChanged,
          QueuedKeys, DisabledValidators, result, hook, announced, planned, rotations, last_active,
          trace, chain, rpc, before>>

\* ------------------------------------------------------------ storage access
load_keys(nk, v) == nk[v]
put_keys(nk, v, keys) == [nk EXCEPT ![v] = Some(keys)]
\* take_keys returns load_keys(nk, v) and leaves this behind
take_keys(nk, v) == [nk EXCEPT ![v] = None]
key_owner(ko, id, key_data) == ko[<<id, key_data>>]
put_key_owner(ko, id, key_data, v) == [ko EXCEPT ![<<id, key_data>>] = Some(v)]
clear_key_owner(ko, id, key_data) == [ko EXCEPT ![<<id, key_data>>] = None]

\* frame_system inc_consumers / dec_consumers on one account
inc_consumers(c, account) == [c EXCEPT ![account] = @ + 1]
dec_consumers(c, account) == [c EXCEPT ![account] = @ - 1]

\* ---------------------------------------------------------- inner_set_keys
\* (variant: only the first key type id is checked)
NoDuplicate_first_id(ko, who, keys) ==
  LET owner == key_owner(ko, key_ids[1], get_raw(keys, key_ids[1]))
  IN  owner = None \/ owner[1] = who

\* first loop: every raw key of the bundle is unowned or owned by `who`
NoDuplicate(ko, who, keys) ==
  \A i \in 1..Len(key_ids) :
    LET owner == key_owner(ko, key_ids[i], get_raw(keys, key_ids[i]))
    IN  owner = None \/ owner[1] = who

\* (variant: the owner of a replaced key is not cleared)
RECURSIVE SetOwners_keeps_old(_, _, _, _, _)
SetOwners_keeps_old(ko, who, keys, old_keys, i) ==
  IF i > Len(key_ids) THEN ko
  ELSE SetOwners_keeps_old(put_key_owner(ko, key_ids[i], get_raw(keys, key_ids[i]), who),
                           who, keys, old_keys, i + 1)

\* second loop, from the i-th key type id on
RECURSIVE SetOwners(_, _, _, _, _)
SetOwners(ko, who, keys, old_keys, i) ==
  IF i > Len(key_ids) THEN ko
  ELSE LET id == key_ids[i]
           key == get_raw(keys, id)
       IN  IF old_keys # None /\ key = get_raw(old_keys[1], id)
           THEN SetOwners(ko, who, keys, old_keys, i + 1)
           ELSE LET cleared == IF old_keys # None
                               THEN clear_key_owner(ko, id, get_raw(old_keys[1], id))
                               ELSE ko
                IN  SetOwners(put_key_owner(cleared, id, key, who), who, keys, old_keys, i + 1)

\* (variant: one loop that checks and writes key type by key type, so that a
\* duplicate found late leaves the earlier writes behind)
RECURSIVE CheckAndSet(_, _, _, _, _)
CheckAndSet(ko, who, keys, old_keys, i) ==
  IF i > Len(key_ids) THEN [ok |-> TRUE, ko |-> ko]
  ELSE LET id == key_ids[i]
           key == get_raw(keys, id)
           owner == key_owner(ko, id, key)
       IN  IF owner # None /\ owner[1] # who THEN [ok |-> FALSE, ko |-> ko]
           ELSE IF old_keys # None /\ key = get_raw(old_keys[1], id)
           THEN CheckAndSet(ko, who, keys, old_keys, i + 1)
           ELSE LET cleared == IF old_keys # None
                               THEN clear_key_owner(ko, id, get_raw(old_keys[1], id))
                               ELSE ko
                IN  CheckAndSet(put_key_owner(cleared, id, key, who), who, keys,
                                old_keys, i + 1)
inner_set_keys_one_loop(nk, ko, who, keys) ==
  LET old_keys == load_keys(nk, who)
      r == CheckAndSet(ko, who, keys, old_keys, 1)
  IN  [ok |-> r.ok, old_keys |-> old_keys,
       nk |-> IF r.ok THEN put_keys(nk, who, keys) ELSE nk,
       ko |-> r.ko]

\* Result<Option<Keys>, DispatchError> with the stores it leaves: the first loop
\* returns the error before the second loop writes anything
inner_set_keys(nk, ko, who, keys) ==
  LET old_keys == load_keys(nk, who)
  IN  IF ~NoDuplicate(ko, who, keys)
      THEN [ok |-> FALSE, old_keys |-> old_keys, nk |-> nk, ko |-> ko]
      ELSE [ok |-> TRUE, old_keys |-> old_keys,
            nk |-> put_keys(nk, who, keys),
            ko |-> SetOwners(ko, who, keys, old_keys, 1)]

\* ------------------------------------------------------------- do_set_keys
\* (variant: the duplicate error of inner_set_keys is dropped)
do_set_keys_unchecked(nk, ko, c, account, keys, can_inc_consumer) ==
  LET who == ValidatorIdOf(account)
  IN  IF who = None
      THEN [res |-> "NoAssociatedValidatorId", nk |-> nk, ko |-> ko, c |-> c]
      ELSE IF ~can_inc_consumer
      THEN [res |-> "NoAccount", nk |-> nk, ko |-> ko, c |-> c]
      ELSE LET old_keys == load_keys(nk, who[1])
           IN  [res |-> "Ok", nk |-> put_keys(nk, who[1], keys),
                ko |-> SetOwners(ko, who[1], keys, old_keys, 1),
                c |-> IF old_keys = None THEN inc_consumers(c, account) ELSE c]

do_set_keys(nk, ko, c, account, keys, can_inc_consumer) ==
  LET who == ValidatorIdOf(account)
  IN  IF who = None
      THEN [res |-> "NoAssociatedValidatorId", nk |-> nk, ko |-> ko, c |-> c]
      ELSE IF ~can_inc_consumer
      THEN [res |-> "NoAccount", nk |-> nk, ko |-> ko, c |-> c]
      ELSE LET r == inner_set_keys(nk, ko, who[1], keys)
           IN  IF ~r.ok
               THEN [res |-> "DuplicatedKey", nk |-> r.nk, ko |-> r.ko, c |-> c]
               ELSE [res |-> "Ok", nk |-> r.nk, ko |-> r.ko,
                     c |-> IF r.old_keys = None THEN inc_consumers(c, account) ELSE c]

\* (variant: the reference is taken on every successful call)
set_keys_always_inc(nk, ko, c, account, keys, proof_ok, can_inc_consumer) ==
  LET r == IF ~proof_ok
           THEN [res |-> "InvalidProof", nk |-> nk, ko |-> ko, c |-> c]
           ELSE do_set_keys(nk, ko, c, account, keys, can_inc_consumer)
  IN  IF r.res = "Ok" /\ load_keys(nk, ValidatorIdOf(account)[1]) # None
      THEN [r EXCEPT !.c = inc_consumers(r.c, account)]
      ELSE r

\* the dispatchable set_keys(origin, keys, proof)
set_keys(nk, ko, c, account, keys, proof_ok, can_inc_consumer) ==
  IF ~proof_ok
  THEN [res |-> "InvalidProof", nk |-> nk, ko |-> ko, c |-> c]
  ELSE do_set_keys(nk, ko, c, account, keys, can_inc_consumer)

\* ----------------------------------------------------------- do_purge_keys
\* (variant: only the first key type's ownership entry is cleared)
ClearOwners_first_id(ko, old_keys, i) ==
  IF i > 1 THEN ko
  ELSE clear_key_owner(ko, key_ids[1], get_raw(old_keys, key_ids[1]))

RECURSIVE ClearOwners(_, _, _)
ClearOwners(ko, old_keys, i) ==
  IF i > Len(key_ids) THEN ko
  ELSE ClearOwners(clear_key_owner(ko, key_ids[i], get_raw(old_keys, key_ids[i])),
                   old_keys, i + 1)

\* (variant: the consumer reference is not released)
do_purge_keys_no_dec(nk, ko, c, account) ==
  LET who == ValidatorIdOf(account)
  IN  IF who = None
      THEN [res |-> "NoAssociatedValidatorId", nk |-> nk, ko |-> ko, c |-> c]
      ELSE LET old_keys == load_keys(nk, who[1])
           IN  IF old_keys = None
               THEN [res |-> "NoKeys", nk |-> nk, ko |-> ko, c |-> c]
               ELSE [res |-> "Ok",
                     nk |-> take_keys(nk, who[1]),
                     ko |-> ClearOwners(ko, old_keys[1], 1),
                     c |-> c]

do_purge_keys(nk, ko, c, account) ==
  LET who == ValidatorIdOf(account)
  IN  IF who = None
      THEN [res |-> "NoAssociatedValidatorId", nk |-> nk, ko |-> ko, c |-> c]
      ELSE LET old_keys == load_keys(nk, who[1])
           IN  IF old_keys = None
               THEN [res |-> "NoKeys", nk |-> nk, ko |-> ko, c |-> c]
               ELSE [res |-> "Ok",
                     nk |-> take_keys(nk, who[1]),
                     ko |-> ClearOwners(ko, old_keys[1], 1),
                     c |-> dec_consumers(c, account)]


\* ------------------------------------------------------------ genesis build
\* the loop over config.keys: inner_set_keys must succeed for every entry (the
\* build panics otherwise); inc_consumers succeeds for the endowed accounts
RECURSIVE GenesisKeys(_, _, _, _, _, _)
GenesisKeys(nk, ko, c, config_keys, endowed, i) ==
  IF i > Len(config_keys) THEN [ok |-> TRUE, nk |-> nk, ko |-> ko, c |-> c]
  ELSE LET account == config_keys[i][1]
           val == config_keys[i][2]
           keys == config_keys[i][3]
           r == inner_set_keys(nk, ko, val, keys)
       IN  IF ~r.ok THEN [ok |-> FALSE, nk |-> nk, ko |-> ko, c |-> c]
           ELSE GenesisKeys(r.nk, r.ko,
                            IF account \in endowed THEN inc_consumers(c, account) ELSE c,
                            config_keys, endowed, i + 1)

\* the validators of a Vec<(ValidatorId, Keys)>
ValidatorsOf(session_keys) == [i \in 1..Len(session_keys) |-> session_keys[i][1]]

\* (variant: validators without stored keys are left out)
WithKeys_registered_only(nk, validators) ==
  LET RECURSIVE Keep(_)
      Keep(i) == IF i > Len(validators) THEN <<>>
                 ELSE IF load_keys(nk, validators[i]) = None THEN Keep(i + 1)
                 ELSE <<<<validators[i], load_keys(nk, validators[i])[1]>>>> \o Keep(i + 1)
  IN  Keep(1)

\* validators paired with their stored keys, or the default keys
WithKeys(nk, validators) ==
  [i \in 1..Len(validators) |->
     <<validators[i], unwrap_or_default(load_keys(nk, validators[i]))>>]

EmptyKeys == [v \in ValidatorId |-> None]
EmptyOwners == [p \in KeyTypeId \X RawKey |-> None]
\* how a returned bool and a returned Ok(bool) are recorded in `result`
Returned(b) == IF b THEN "true" ELSE "false"
ReturnedOk(b) == IF b THEN "Ok(true)" ELSE "Ok(false)"
NoCall == [op |-> "none", args |-> <<>>, res |-> "none"]
NoHook == [kind |-> "none"]
NoBefore == [stage |-> 0, who |-> 0, nk |-> <<>>, ko |-> <<>>]

\* a period of one block, no offset, no block initialised yet
DefaultChain == [period |-> 1, offset |-> 0, now |-> 0]

\* GrandpaRpc before subscribe_justifications: no task, the subscriber's sink open
NoSubscription ==
  [task |-> "none", sink_open |-> TRUE, stream |-> <<>>, emitted |-> <<>>,
   calls |-> <<>>, sent |-> <<>>]

\* the stores before the genesis build
InitStores ==
  /\ built = FALSE
  /\ NextKeys = EmptyKeys
  /\ KeyOwner = EmptyOwners
  /\ consumers = [a \in AccountId |-> 0]
  /\ Validators = <<>>
  /\ CurrentIndex = 0
  /\ QueuedChanged = FALSE
  /\ QueuedKeys = <<>>
  /\ DisabledValidators = <<>>
  /\ result = NoCall
  /\ hook = NoHook
  /\ announced = <<>>
  /\ planned = [cur |-> None, next |-> None]
  /\ rotations = 0
  /\ last_active = <<>>
  /\ trace = <<>>
  /\ before = NoBefore
  /\ rpc = NoSubscription

Init == InitStores /\ chain = DefaultChain

\* the calls the genesis build makes to the SessionManager and the SessionHandler
GenesisSteps ==
  << <<"new_session", 0>>, <<"new_session", 1>>, <<"on_genesis_session", 0>>,
     <<"start_session", 0>> >>
\* the calls to the SessionManager among `steps`
ManagerCalls(steps) ==
  SelectSeq(steps, LAMBDA c : c[1] \in {"new_session", "end_session", "start_session"})

\* add_extra_genesis build: config_keys is config.keys, new_session_0 and
\* new_session_1 are the SessionManager's answers
GenesisBuild(config_keys, endowed, new_session_0, new_session_1) ==
  LET g == GenesisKeys(EmptyKeys, EmptyOwners, [a \in AccountId |-> 0],
                       config_keys, endowed, 1)
      initial_validators_0 ==
        IF new_session_0 # None THEN new_session_0[1]
        ELSE [i \in 1..Len(config_keys) |-> config_keys[i][2]]
      initial_validators_1 ==
        IF new_session_1 # None THEN new_session_1[1] ELSE initial_validators_0
      queued_keys == WithKeys(g.nk, initial_validators_1)
  IN  /\ ~built
      /\ g.ok
      /\ initial_validators_0 # <<>>
      /\ initial_validators_1 # <<>>
      /\ built' = TRUE
      /\ NextKeys' = g.nk
      /\ KeyOwner' = g.ko
      /\ consumers' = g.c
      /\ Validators' = initial_validators_0
      /\ QueuedKeys' = queued_keys
      /\ hook' = [kind |-> "on_genesis_session", validators |-> queued_keys]
      /\ announced' = queued_keys
      /\ planned' = [cur |-> new_session_0, next |-> new_session_1]
      /\ last_active' = queued_keys
      /\ trace' = ManagerCalls(GenesisSteps)
      /\ result' = [op |-> "genesis", args |-> <<>>, res |-> "Ok"]
      /\ UNCHANGED <<CurrentIndex, QueuedChanged, DisabledValidators, rotations, before,
                     chain, rpc>>

\* ---------------------------------------------------------- rotate_session
\* check_next_changed over the entries of next_validators from the i-th on;
\* `cursor` is how many entries of now_session_keys the iterator has yielded
\* (variant: the stored keys are not compared)
NextChanged_identities_only(changed, nk, session_keys, next_validators, i, cursor) ==
  changed

RECURSIVE NextChanged(_, _, _, _, _, _)
NextChanged(changed, nk, session_keys, next_validators, i, cursor) ==
  IF i > Len(next_validators) THEN changed
  ELSE LET k == unwrap_or_default(load_keys(nk, next_validators[i]))
       IN  IF changed THEN NextChanged(TRUE, nk, session_keys, next_validators, i + 1, cursor)
           ELSE IF cursor + 1 <= Len(session_keys)
           THEN NextChanged(session_keys[cursor + 1][2] # k, nk, session_keys,
                            next_validators, i + 1, cursor + 1)
           ELSE NextChanged(FALSE, nk, session_keys, next_validators, i + 1, cursor)

\* (variant: the new index is stored after the SessionManager was told of the
\* start of the session)
SessionSteps_index_late(idx, changed) ==
  << <<"on_before_session_ending", idx>>, <<"end_session", idx>>,
     <<"put_Validators", idx + 1>> >>
  \o (IF changed THEN << <<"take_DisabledValidators", idx + 1>> >> ELSE <<>>)
  \o << <<"start_session", idx + 1>>, <<"put_CurrentIndex", idx + 1>>,
        <<"new_session", idx + 2>>,
        <<"put_QueuedKeys", idx + 2>>, <<"put_QueuedChanged", idx + 2>>,
        <<"deposit_event_NewSession", idx + 1>>, <<"on_new_session", idx + 1>> >>

\* the calls rotate_session makes to the SessionHandler and the SessionManager, its
\* writes to storage and the event it deposits, in the order it makes them, when it
\* starts with CurrentIndex = idx and QueuedChanged = changed; each with the index
\* of the session it is about
SessionSteps(idx, changed) ==
  << <<"on_before_session_ending", idx>>, <<"end_session", idx>>,
     <<"put_Validators", idx + 1>> >>
  \o (IF changed THEN << <<"take_DisabledValidators", idx + 1>> >> ELSE <<>>)
  \o << <<"put_CurrentIndex", idx + 1>>, <<"start_session", idx + 1>>,
        <<"new_session", idx + 2>>,
        <<"put_QueuedKeys", idx + 2>>, <<"put_QueuedChanged", idx + 2>>,
        <<"deposit_event_NewSession", idx + 1>>, <<"on_new_session", idx + 1>> >>

\* (variant: the SessionManager is asked for the session that starts now)
rotate_session_asks_for_current(nk, idx, qchanged, qkeys, disabled, maybe_next_validators) ==
  LET validators == ValidatorsOf(qkeys)
      next_validators == IF maybe_next_validators # None
                         THEN maybe_next_validators[1] ELSE validators
      queued_amalgamated == WithKeys(nk, next_validators)
  IN  [Validators |-> validators,
       DisabledValidators |-> IF qchanged THEN <<>> ELSE disabled,
       CurrentIndex |-> idx + 1,
       QueuedKeys |-> queued_amalgamated,
       QueuedChanged |-> NextChanged(maybe_next_validators # None, nk, qkeys,
                                     next_validators, 1, 0),
       hook |-> [kind |-> "on_new_session", changed |-> qchanged,
                 validators |-> qkeys,
                 queued_validators |-> queued_amalgamated],
       steps |-> << <<"on_before_session_ending", idx>>, <<"end_session", idx>>,
                    <<"start_session", idx + 1>>, <<"new_session", idx + 1>>,
                    <<"on_new_session", idx + 1>> >>]

\* (variant: the flag computed in this rotation is handed over)
rotate_session_hands_new_flag(nk, idx, qchanged, qkeys, disabled, maybe_next_validators) ==
  LET validators == ValidatorsOf(qkeys)
      next_validators == IF maybe_next_validators # None
                         THEN maybe_next_validators[1] ELSE validators
      queued_amalgamated == WithKeys(nk, next_validators)
      next_changed == NextChanged(maybe_next_validators # None, nk, qkeys,
                                  next_validators, 1, 0)
  IN  [Validators |-> validators,
       DisabledValidators |-> IF qchanged THEN <<>> ELSE disabled,
       CurrentIndex |-> idx + 1,
       QueuedKeys |-> queued_amalgamated,
       QueuedChanged |-> next_changed,
       hook |-> [kind |-> "on_new_session", changed |-> next_changed,
                 validators |-> qkeys,
                 queued_validators |-> queued_amalgamated],
       steps |-> SessionSteps(idx, qchanged)]

\* (variant: the freshly queued list is handed over as the active one)
rotate_session_hands_queued(nk, idx, qchanged, qkeys, disabled, maybe_next_validators) ==
  LET validators == ValidatorsOf(qkeys)
      next_validators == IF maybe_next_validators # None
                         THEN maybe_next_validators[1] ELSE validators
      queued_amalgamated == WithKeys(nk, next_validators)
  IN  [Validators |-> validators,
       DisabledValidators |-> IF qchanged THEN <<>> ELSE disabled,
       CurrentIndex |-> idx + 1,
       QueuedKeys |-> queued_amalgamated,
       QueuedChanged |-> NextChanged(maybe_next_validators # None, nk, qkeys,
                                     next_validators, 1, 0),
       hook |-> [kind |-> "on_new_session", changed |-> qchanged,
                 validators |-> queued_amalgamated,
                 queued_validators |-> queued_amalgamated],
       steps |-> SessionSteps(idx, qchanged)]

\* (variant: the SessionManager's list becomes the validator set at once)
rotate_session_no_delay(nk, idx, qchanged, qkeys, disabled, maybe_next_validators) ==
  LET next_validators == IF maybe_next_validators # None
                         THEN maybe_next_validators[1] ELSE ValidatorsOf(qkeys)
      queued_amalgamated == WithKeys(nk, next_validators)
  IN  [Validators |-> next_validators,
       DisabledValidators |-> IF qchanged THEN <<>> ELSE disabled,
       CurrentIndex |-> idx + 1,
       QueuedKeys |-> queued_amalgamated,
       QueuedChanged |-> NextChanged(maybe_next_validators # None, nk, qkeys,
                                     next_validators, 1, 0),
       hook |-> [kind |-> "on_new_session", changed |-> qchanged,
                 validators |-> qkeys,
                 queued_validators |-> queued_amalgamated],
       steps |-> SessionSteps(idx, qchanged)]

\* (variant: the index is left alone when the queued set has not changed)
rotate_session_keeps_index(nk, idx, qchanged, qkeys, disabled, maybe_next_validators) ==
  LET validators == ValidatorsOf(qkeys)
      next_validators == IF maybe_next_validators # None
                         THEN maybe_next_validators[1] ELSE validators
      queued_amalgamated == WithKeys(nk, next_validators)
  IN  [Validators |-> validators,
       DisabledValidators |-> IF qchanged THEN <<>> ELSE disabled,
       CurrentIndex |-> IF qchanged THEN idx + 1 ELSE idx,
       QueuedKeys |-> queued_amalgamated,
       QueuedChanged |-> NextChanged(maybe_next_validators # None, nk, qkeys,
                                     next_validators, 1, 0),
       hook |-> [kind |-> "on_new_session", changed |-> qchanged,
                 validators |-> qkeys,
                 queued_validators |-> queued_amalgamated],
       steps |-> SessionSteps(idx, qchanged)]

\* (variant: the disabled set is reset when the set queued now has changed)
rotate_session_resets_on_next(nk, idx, qchanged, qkeys, disabled, maybe_next_validators) ==
  LET validators == ValidatorsOf(qkeys)
      next_validators == IF maybe_next_validators # None
                         THEN maybe_next_validators[1] ELSE validators
      queued_amalgamated == WithKeys(nk, next_validators)
      next_changed == NextChanged(maybe_next_validators # None, nk, qkeys,
                                  next_validators, 1, 0)
  IN  [Validators |-> validators,
       DisabledValidators |-> IF next_changed THEN <<>> ELSE disabled,
       CurrentIndex |-> idx + 1,
       QueuedKeys |-> queued_amalgamated,
       QueuedChanged |-> next_changed,
       hook |-> [kind |-> "on_new_session", changed |-> qchanged,
                 validators |-> qkeys,
                 queued_validators |-> queued_amalgamated],
       steps |-> SessionSteps(idx, qchanged)]

\* (variant: the active list carries the bundles stored now, not the queued ones)
rotate_session_reloads_keys(nk, idx, qchanged, qkeys, disabled, maybe_next_validators) ==
  LET session_keys == qkeys
      validators == ValidatorsOf(session_keys)
      next_validators == IF maybe_next_validators # None
                         THEN maybe_next_validators[1] ELSE validators
      queued_amalgamated == WithKeys(nk, next_validators)
      next_changed == NextChanged(maybe_next_validators # None, nk, session_keys,
                                  next_validators, 1, 0)
  IN  [Validators |-> validators,
       DisabledValidators |-> IF qchanged THEN <<>> ELSE disabled,
       CurrentIndex |-> idx + 1,
       QueuedKeys |-> queued_amalgamated,
       QueuedChanged |-> next_changed,
       hook |-> [kind |-> "on_new_session", changed |-> qchanged,
                 validators |-> WithKeys(nk, validators),
                 queued_validators |-> queued_amalgamated],
       steps |-> SessionSteps(idx, qchanged)]

\* (variant: a flag that was set stays set)
rotate_session_sticky_flag(nk, idx, qchanged, qkeys, disabled, maybe_next_validators) ==
  LET session_keys == qkeys
      validators == ValidatorsOf(session_keys)
      next_validators == IF maybe_next_validators # None
                         THEN maybe_next_validators[1] ELSE validators
      queued_amalgamated == WithKeys(nk, next_validators)
      next_changed == NextChanged(qchanged \/ maybe_next_validators # None, nk,
                                  session_keys, next_validators, 1, 0)
  IN  [Validators |-> validators,
       DisabledValidators |-> IF qchanged THEN <<>> ELSE disabled,
       CurrentIndex |-> idx + 1,
       QueuedKeys |-> queued_amalgamated,
       QueuedChanged |-> next_changed,
       hook |-> [kind |-> "on_new_session", changed |-> qchanged,
                 validators |-> session_keys,
                 queued_validators |-> queued_amalgamated],
       steps |-> SessionSteps(idx, qchanged)]

\* what rotate_session stores and hands over, given the SessionManager's
\* answer to new_session(session_index + 1)
rotate_session(nk, idx, qchanged, qkeys, disabled, maybe_next_validators) ==
  LET changed == qchanged
      session_keys == qkeys
      validators == ValidatorsOf(session_keys)
      session_index == idx + 1
      next_validators == IF maybe_next_validators # None
                         THEN maybe_next_validators[1] ELSE validators
      next_identities_changed == maybe_next_validators # None
      queued_amalgamated == WithKeys(nk, next_validators)
      next_changed == NextChanged(next_identities_changed, nk, session_keys,
                                  next_validators, 1, 0)
  IN  [Validators |-> validators,
       DisabledValidators |-> IF changed THEN <<>> ELSE disabled,
       CurrentIndex |-> session_index,
       QueuedKeys |-> queued_amalgamated,
       QueuedChanged |-> next_changed,
       hook |-> [kind |-> "on_new_session", changed |-> changed,
                 validators |-> session_keys,
                 queued_validators |-> queued_amalgamated],
       steps |-> SessionSteps(idx, qchanged)]

\* ----------------------------------------------------- disable_index, disable
\* T::DisabledValidatorsThreshold, in parts per billion
DisabledValidatorsThreshold == 333333333
\* Perbill * u32: parts * n / 10^9 rounded to the nearest integer, computed as
\* floor((parts * n + 5 * 10^8) / 10^9) without leaving 32 bits
PerbillMul(parts, n) ==
  ((parts \div 1000) * n + ((parts % 1000) * n + 500000000) \div 1000) \div 1000000

\* disabled.binary_search(&i) on the sorted list: Ok when i is there, otherwise
\* Err(index) with the place that keeps the list sorted
Contains(disabled, i) == \E k \in 1..Len(disabled) : disabled[k] = i
\* (variant: the place after the last entry)
InsertAt_end(disabled, i) == Len(disabled)
InsertAt(disabled, i) == Cardinality({k \in 1..Len(disabled) : disabled[k] < i})
Insert(disabled, index, i) ==
  [k \in 1..(Len(disabled) + 1) |->
     IF k <= index THEN disabled[k] ELSE IF k = index + 1 THEN i ELSE disabled[k - 1]]

\* (variant: an index already disabled is reported and announced again)
disable_index_refires(disabled, validators, i) ==
  LET threshold == PerbillMul(DisabledValidatorsThreshold, Len(validators))
      inserted == IF Contains(disabled, i) THEN disabled
                  ELSE Insert(disabled, InsertAt(disabled, i), i)
  IN  [fire_event |-> TRUE, threshold_reached |-> Len(inserted) > threshold,
       disabled |-> inserted]

\* (variant: the length is compared before the index is inserted)
disable_index_counts_before(disabled, validators, i) ==
  IF ~Contains(disabled, i)
  THEN [fire_event |-> TRUE,
        threshold_reached |->
          Len(disabled) > PerbillMul(DisabledValidatorsThreshold, Len(validators)),
        disabled |-> Insert(disabled, InsertAt(disabled, i), i)]
  ELSE [fire_event |-> FALSE, threshold_reached |-> FALSE, disabled |-> disabled]

disable_index(disabled, validators, i) ==
  LET i32 == i  \* `i as u32`: the indices used here are below 2^32
  IN  IF ~Contains(disabled, i32)
      THEN LET count == Len(validators)
               threshold == PerbillMul(DisabledValidatorsThreshold, count)
               inserted == Insert(disabled, InsertAt(disabled, i32), i32)
           IN  [fire_event |-> TRUE, threshold_reached |-> Len(inserted) > threshold,
                disabled |-> inserted]
      ELSE [fire_event |-> FALSE, threshold_reached |-> FALSE, disabled |-> disabled]

\* (variant: the index of the last match)
position_last(validators, c) ==
  IF \E k \in 1..Len(validators) : validators[k] = c
  THEN Some((CHOOSE k \in 1..Len(validators) :
               validators[k] = c /\ \A j \in (k + 1)..Len(validators) : validators[j] # c) - 1)
  ELSE None

\* validators.iter().position(|i| i == c): Some(index from 0) of the first match
position(validators, c) ==
  IF \E k \in 1..Len(validators) : validators[k] = c
  THEN Some((CHOOSE k \in 1..Len(validators) :
               validators[k] = c /\ \A j \in 1..(k - 1) : validators[j] # c) - 1)
  ELSE None

\* --------------------------------------------------------- PeriodicSessions
\* what a call gives: a value, or a panic (remainder by zero, overflow in a build
\* that checks for it); the value of a panic is 0
Value(v) == [panic |-> FALSE, value |-> v]
Panic == [panic |-> TRUE, value |-> 0]

\* (variant: the block at the offset does not end a session)
should_end_session_after_offset(period, offset, now) ==
  IF now > offset
  THEN IF period = 0 THEN Panic ELSE Value(((now - offset) % period) = 0)
  ELSE Value(FALSE)

\* now >= offset && ((now - offset) % Period::get()).is_zero()
should_end_session(period, offset, now) ==
  IF now >= offset
  THEN IF period = 0 THEN Panic ELSE Value(((now - offset) % period) = 0)
  ELSE Value(FALSE)

\* Percent::from_rational(p, q): q is at least 1, p at most q, both are divided by
\* ceil(q / 100), and the parts per hundred are rounded down
PercentFromRational(p, q) ==
  LET q1 == IF q < 1 THEN 1 ELSE q
      p1 == IF p > q1 THEN q1 ELSE p
      div_ceil == (q1 \div 100) + (IF q1 % 100 > 0 THEN 1 ELSE 0)
      factor == IF div_ceil < 1 THEN 1 ELSE div_ceil
      q_reduce == q1 \div factor
      p_reduce == p1 \div factor
  IN  (p_reduce * 100) \div q_reduce

estimate_current_session_progress(period, offset, now) ==
  IF now >= offset
  THEN IF period = 0 THEN Panic
       ELSE LET current == ((now - offset) % period) + 1
            IN  Value(PercentFromRational(current, period))
  ELSE Value(PercentFromRational(now + 1, offset))

\* a + b on block numbers: past MaxBlockNumber it panics in a build with overflow
\* checks and wraps around in one without
Add(a, b, overflow_checks) ==
  IF a + b <= MaxBlockNumber THEN Value(a + b)
  ELSE IF overflow_checks THEN Panic
  ELSE Value((a + b) % (MaxBlockNumber + 1))
saturating_add(a, b) == IF a + b <= MaxBlockNumber THEN a + b ELSE MaxBlockNumber
saturating_sub(a, b) == IF a >= b THEN a - b ELSE 0

\* (variant: a full period is added in the middle of a session too)
estimate_next_session_rotation_full_period(period, offset, now, overflow_checks) ==
  IF now > offset
  THEN IF period = 0 THEN Panic ELSE Add(now, period, overflow_checks)
  ELSE Value(offset)

estimate_next_session_rotation(period, offset, now, overflow_checks) ==
  IF now > offset
  THEN IF period = 0 THEN Panic
       ELSE LET block_after_last_session == (now - offset) % period
            IN  IF block_after_last_session > 0
                THEN Value(saturating_add(now,
                                          saturating_sub(period, block_after_last_session)))
                ELSE Add(now, period, overflow_checks)
  ELSE Value(offset)

\* ------------------------------------------------------------- upgrade_keys
RECURSIVE PutOwners(_, _, _, _)
PutOwners(ko, new_keys, val, i) ==
  IF i > Len(key_ids) THEN ko
  ELSE PutOwners(put_key_owner(ko, key_ids[i], get_raw(new_keys, key_ids[i]), val),
                 new_keys, val, i + 1)

\* NextKeys::translate over the stored entries in the order `order` visits them
RECURSIVE TranslateNextKeys(_, _, _, _, _)
TranslateNextKeys(nk, ko, upgrade, order, i) ==
  IF i > Len(order) THEN [nk |-> nk, ko |-> ko]
  ELSE LET val == order[i]
           old_keys == nk[val][1]
           new_keys == upgrade[<<val, old_keys>>]
       IN  TranslateNextKeys(put_keys(nk, val, new_keys),
                             PutOwners(ClearOwners(ko, old_keys, 1), new_keys, val, 1),
                             upgrade, order, i + 1)

upgrade_keys(nk, ko, qkeys, upgrade, order) ==
  LET t == TranslateNextKeys(nk, ko, upgrade, order, 1)
  IN  [nk |-> t.nk, ko |-> t.ko,
       qkeys |-> [k \in 1..Len(qkeys) |->
                    <<qkeys[k][1], upgrade[<<qkeys[k][1], qkeys[k][2]>>]>>]]

\* the orders in which a storage iteration may visit the validators in S
Orders(S) == {o \in [1..Cardinality(S) -> S] : \A v \in S : \E k \in DOMAIN o : o[k] = v}

\* ------------------------------------------------- GrandpaRpc justifications
\* sc_finality_grandpa::GrandpaJustification<Block>, named by its round
GrandpaJustification == 1..MaxRound
\* Encode and Decode of a justification: two digits, the low one first
encode(x) == <<x % 2, x \div 2>>
decode(bytes) == bytes[1] + 2 * bytes[2]
\* JustificationNotification::from(x): the encoded justification as Bytes
JustificationNotification_from(x) == [bytes |-> encode(x)]

\* subscribe_justifications: justification_stream.subscribe() and
\* executor.execute(fut)
subscribe_justifications(r) == [r EXCEPT !.task = "running"]

\* a justification emitted on the justification stream reaches the stream of a
\* subscription that is listening
notify(r, x) ==
  IF r.task = "none" THEN r
  ELSE [r EXCEPT !.emitted = Append(@, x),
                 !.stream = IF r.task = "running" THEN Append(@, x) ELSE @]

\* (variant: a failed send does not end the task)
take_while_goes_on(r) ==
  LET justification == JustificationNotification_from(Head(r.stream))
  IN  [r EXCEPT !.calls = Append(@, justification),
                !.sent = IF r.sink_open THEN Append(@, justification) ELSE @,
                !.stream = Tail(@)]

\* one item of the stream through map and take_while: sink.send(justification);
\* when the send fails the stream ends and the task with it
take_while(r) ==
  LET justification == JustificationNotification_from(Head(r.stream))
  IN  IF r.sink_open
      THEN [r EXCEPT !.calls = Append(@, justification),
                     !.sent = Append(@, justification),
                     !.stream = Tail(@)]
      ELSE [r EXCEPT !.calls = Append(@, justification),
                     !.stream = <<>>,
                     !.task = "ended"]

\* ------------------------------------------------------------------ actions
\* proof_ok is what keys.ownership_proof_is_valid(&proof) returns and can is what
\* can_inc_consumer returns (asked only when the proof is valid and the account
\* has a validator id); both are drawn from `answers`
SetKeys(accounts, bundles, answers) ==
  \E account \in accounts, keys \in bundles, proof_ok \in answers :
  \E can \in IF proof_ok /\ ValidatorIdOf(account) # None THEN answers ELSE {FALSE} :
    LET r == set_keys(NextKeys, KeyOwner, consumers, account, keys, proof_ok, can)
    IN  /\ built
        /\ \A a \in AccountId : r.c[a] \in -MaxRef..MaxRef
        /\ NextKeys' = r.nk
        /\ KeyOwner' = r.ko
        /\ consumers' = r.c
        /\ result' = [op |-> "set_keys",
                      args |-> [account |-> account, keys |-> keys,
                                proof_ok |-> proof_ok, can |-> can],
                      res |-> r.res]
        /\ before' = IF r.res = "Ok"
                     THEN [stage |-> 1, who |-> ValidatorIdOf(account)[1],
                           nk |-> NextKeys, ko |-> KeyOwner]
                     ELSE NoBefore
        /\ hook' = NoHook
        /\ UNCHANGED <<built, sessionVars, ghostVars>>

\* (variant: a purge also takes the validator's entries out of QueuedKeys)
PurgeKeys_unqueues(accounts) ==
  \E account \in accounts :
    LET r == do_purge_keys(NextKeys, KeyOwner, consumers, account)
    IN  /\ built
        /\ \A a \in AccountId : r.c[a] \in -MaxRef..MaxRef
        /\ NextKeys' = r.nk
        /\ KeyOwner' = r.ko
        /\ consumers' = r.c
        /\ QueuedKeys' = IF r.res = "Ok"
                         THEN SelectSeq(QueuedKeys,
                                        LAMBDA e : e[1] # ValidatorIdOf(account)[1])
                         ELSE QueuedKeys
        /\ result' = [op |-> "purge_keys", args |-> [account |-> account], res |-> r.res]
        /\ before' = NoBefore
        /\ hook' = NoHook
        /\ UNCHANGED <<built, Validators, CurrentIndex, QueuedChanged, DisabledValidators,
                       ghostVars>>

PurgeKeys(accounts) ==
  \E account \in accounts :
    LET r == do_purge_keys(NextKeys, KeyOwner, consumers, account)
    IN  /\ built
        /\ \A a \in AccountId : r.c[a] \in -MaxRef..MaxRef
        /\ NextKeys' = r.nk
        /\ KeyOwner' = r.ko
        /\ consumers' = r.c
        /\ result' = [op |-> "purge_keys", args |-> [account |-> account], res |-> r.res]
        /\ before' = IF r.res = "Ok" /\ before.stage = 1
                        /\ before.who = ValidatorIdOf(account)[1]
                     THEN [before EXCEPT !.stage = 2]
                     ELSE NoBefore
        /\ hook' = NoHook
        /\ UNCHANGED <<built, sessionVars, ghostVars>>

RotateSession(answers) ==
  \E maybe_next_validators \in answers :
    LET r == rotate_session(NextKeys, CurrentIndex, QueuedChanged, QueuedKeys,
                            DisabledValidators, maybe_next_validators)
    IN  /\ built
        /\ CurrentIndex < MaxSession
        /\ Validators' = r.Validators
        /\ DisabledValidators' = r.DisabledValidators
        /\ CurrentIndex' = r.CurrentIndex
        /\ QueuedKeys' = r.QueuedKeys
        /\ QueuedChanged' = r.QueuedChanged
        /\ hook' = r.hook
        /\ announced' = r.hook.queued_validators
        /\ planned' = [cur |-> planned.next, next |-> maybe_next_validators]
        /\ rotations' = rotations + 1
        /\ last_active' = r.hook.validators
        /\ trace' = trace \o ManagerCalls(r.steps)
        /\ result' = [op |-> "rotate_session", args |-> <<>>, res |-> "Ok",
                      steps |-> r.steps]
        /\ before' = NoBefore
        /\ UNCHANGED <<built, keyVars, chain, rpc>>

DisableIndex(indices) ==
  \E i \in indices :
    LET r == disable_index(DisabledValidators, Validators, i)
    IN  /\ built
        /\ DisabledValidators' = r.disabled
        /\ hook' = IF r.fire_event THEN [kind |-> "on_disabled", validator_index |-> i]
                   ELSE NoHook
        /\ result' = [op |-> "disable_index", args |-> [i |-> i],
                      res |-> Returned(r.threshold_reached)]
        /\ before' = NoBefore
        /\ UNCHANGED <<built, keyVars, Validators, CurrentIndex, QueuedChanged, QueuedKeys,
                       ghostVars>>

Disable(ids) ==
  \E c \in ids :
    LET p == position(Validators, c)
        r == disable_index(DisabledValidators, Validators, p[1])
    IN  /\ built
        /\ DisabledValidators' = IF p = None THEN DisabledValidators ELSE r.disabled
        /\ hook' = IF p # None /\ r.fire_event
                   THEN [kind |-> "on_disabled", validator_index |-> p[1]]
                   ELSE NoHook
        /\ result' = [op |-> "disable", args |-> [c |-> c],
                      res |-> IF p = None THEN "Err"
                              ELSE ReturnedOk(r.threshold_reached)]
        /\ before' = NoBefore
        /\ UNCHANGED <<built, keyVars, Validators, CurrentIndex, QueuedChanged, QueuedKeys,
                       ghostVars>>

UpgradeKeys(upgrades) ==
  \E upgrade \in upgrades :
  \E order \in Orders({v \in ValidatorId : NextKeys[v] # None}) :
    LET r == upgrade_keys(NextKeys, KeyOwner, QueuedKeys, upgrade, order)
    IN  /\ built
        /\ NextKeys' = r.nk
        /\ KeyOwner' = r.ko
        /\ QueuedKeys' = r.qkeys
        /\ hook' = NoHook
        /\ result' = [op |-> "upgrade_keys", args |-> [upgrade |-> upgrade], res |-> "Ok"]
        /\ before' = NoBefore
        /\ UNCHANGED <<built, consumers, Validators, CurrentIndex, QueuedChanged,
                       DisabledValidators, ghostVars>>

\* on_initialize(n) for the next block n: rotate_session when the policy says the
\* session should end; a panic leaves the block without effect
OnInitialize(answers) ==
  \E maybe_next_validators \in answers :
    LET n == chain.now
        end == should_end_session(chain.period, chain.offset, n)
        r == rotate_session(NextKeys, CurrentIndex, QueuedChanged, QueuedKeys,
                            DisabledValidators, maybe_next_validators)
        rotate == ~end.panic /\ end.value
    IN  /\ built
        /\ n <= MaxBlockNumber
        /\ chain' = [chain EXCEPT !.now = n + 1]
        /\ Validators' = IF rotate THEN r.Validators ELSE Validators
        /\ DisabledValidators' = IF rotate THEN r.DisabledValidators ELSE DisabledValidators
        /\ CurrentIndex' = IF rotate THEN r.CurrentIndex ELSE CurrentIndex
        /\ QueuedKeys' = IF rotate THEN r.QueuedKeys ELSE QueuedKeys
        /\ QueuedChanged' = IF rotate THEN r.QueuedChanged ELSE QueuedChanged
        /\ hook' = IF rotate THEN r.hook ELSE NoHook
        /\ announced' = IF rotate THEN r.hook.queued_validators ELSE announced
        /\ planned' = IF rotate THEN [cur |-> planned.next, next |-> maybe_next_validators]
                      ELSE planned
        /\ rotations' = IF rotate THEN rotations + 1 ELSE rotations
        /\ last_active' = IF rotate THEN r.hook.validators ELSE last_active
        /\ trace' = IF rotate THEN trace \o ManagerCalls(r.steps) ELSE trace
        /\ result' = [op |-> "on_initialize", args |-> [n |-> n],
                      res |-> IF end.panic THEN "panic"
                              ELSE IF rotate THEN "max_block" ELSE "0"]
        /\ before' = NoBefore
        /\ UNCHANGED <<built, keyVars, rpc>>

EstimateCurrentSessionProgress(blocks) ==
  \E now \in blocks :
    LET e == estimate_current_session_progress(chain.period, chain.offset, now)
    IN  /\ result' = [op |-> "estimate_current_session_progress",
                      args |-> [now |-> now, percent |-> e.value],
                      res |-> IF e.panic THEN "panic" ELSE "Some"]
        /\ UNCHANGED <<built, keyVars, sessionVars, ghostVars, hook, before>>

EstimateNextSessionRotation(blocks) ==
  \E now \in blocks, overflow_checks \in BOOLEAN :
    LET e == estimate_next_session_rotation(chain.period, chain.offset, now,
                                            overflow_checks)
    IN  /\ result' = [op |-> "estimate_next_session_rotation",
                      args |-> [now |-> now, overflow_checks |-> overflow_checks,
                                next |-> e.value],
                      res |-> IF e.panic THEN "panic" ELSE "Some"]
        /\ UNCHANGED <<built, keyVars, sessionVars, ghostVars, hook, before>>

\* what the GrandpaRpc steps leave alone
palletVars ==
  <<built, keyVars, sessionVars, result, hook, before, announced, planned, rotations,
    last_active, trace, chain>>

SubscribeJustifications ==
  /\ rpc.task = "none"
  /\ rpc' = subscribe_justifications(rpc)
  /\ UNCHANGED palletVars

\* GrandpaJustificationSender::notify
Notify ==
  /\ Len(rpc.emitted) < MaxEmit
  /\ \E x \in GrandpaJustification : rpc' = notify(rpc, x)
  /\ UNCHANGED palletVars

\* the task spawned by subscribe_justifications handles the next justification
ForwardJustification ==
  /\ rpc.task = "running"
  /\ rpc.stream # <<>>
  /\ rpc' = take_while(rpc)
  /\ UNCHANGED palletVars

\* the subscriber goes away: from now on sink.send fails
CloseSink ==
  /\ rpc.sink_open
  /\ rpc' = [rpc EXCEPT !.sink_open = FALSE]
  /\ UNCHANGED palletVars

\* --------------------------------------------------------- specifications
\* key management: genesis registration for validators 1 and 2, each by its own
\* account or validator 1 by account 2, then set_keys and purge_keys by accounts 1
\* and 2 (validators 1 and 2) and by account 4 (no validator id, so that its bundle
\* is never read); the SessionManager's validator set is validator 3 throughout
KeyAccounts == {1, 2, 4}
GenesisPairs == {<<1, 1>>, <<2, 2>>, <<2, 1>>}
GenesisOfKeys ==
  /\ ~built
  /\ \E config_keys \in SeqUpTo({<<p[1], p[2], k>> : p \in GenesisPairs, k \in Keys}, MaxGenesis),
        endowed \in {{}, AccountId} :
       GenesisBuild(config_keys, endowed, Some(<<3>>), None)
SetKeysAny == SetKeys({1, 2}, Keys, BOOLEAN) \/ SetKeys({4}, {DefaultKeys}, BOOLEAN)
PurgeKeysAny == PurgeKeys(KeyAccounts)

NextKeysOnly == GenesisOfKeys \/ SetKeysAny \/ PurgeKeysAny
SpecKeys == Init /\ [][NextKeysOnly]_vars

\* sessions: a genesis with at most one registered validator, then rotations with
\* any answer of the SessionManager over validators 1 and 2, and registrations and
\* purges by accounts 1 and 2 of the default bundle or of the bundle of raw keys 1
SessionBundles == {DefaultKeys, [id \in KeyTypeId |-> 1]}
SessionRosters == SeqUpTo({1, 2}, MaxRoster)
SessionAnswers == {None} \cup {Some(r) : r \in SessionRosters}
GenesisOfSession ==
  /\ ~built
  /\ \E config_keys \in SeqUpTo({<<1, 1, [id \in KeyTypeId |-> 1]>>}, 1),
        new_session_0 \in SessionAnswers, new_session_1 \in SessionAnswers :
       GenesisBuild(config_keys, AccountId, new_session_0, new_session_1)
RotateAny == RotateSession(SessionAnswers)
SetKeysOfSession == SetKeys({1, 2}, SessionBundles, {TRUE})
PurgeKeysOfSession == PurgeKeys({1, 2})

NextSession == GenesisOfSession \/ RotateAny \/ SetKeysOfSession \/ PurgeKeysOfSession
SpecSession == Init /\ [][NextSession]_vars

\* every operation: rotation with one of three answers, registration by one
\* account, disable_index on any index up to MaxRoster, disable of a validator in
\* or out of the set, and upgrade_keys with one of two upgrade functions
SwapKeys == [p \in ValidatorId \X Keys |->
               [id \in KeyTypeId |-> get_raw(p[2], key_ids[Len(key_ids) + 1 - id])]]
SameKeys == [p \in ValidatorId \X Keys |-> p[2]]
DisableIndexAny == DisableIndex(0..MaxRoster)
DisableAny == Disable({1, 3})
UpgradeKeysAny == UpgradeKeys({SwapKeys, SameKeys})
SetKeysOfOne == SetKeys({1}, SessionBundles, {TRUE})
PurgeKeysOfOne == PurgeKeys({1})
RotateSome == RotateSession({None, Some(<<1>>), Some(<<2, 1>>)})

NextAll ==
  \/ GenesisOfSession \/ RotateSome \/ SetKeysOfOne \/ PurgeKeysOfOne
  \/ DisableIndexAny \/ DisableAny \/ UpgradeKeysAny
SpecAll == Init /\ [][NextAll]_vars

\* disabling: a genesis and rotations where the SessionManager answers none, a
\* list of one to MaxActive validators, or a list naming validator 1 twice;
\* disable_index on any index up to MaxActive (one past the largest set) and
\* disable of any validator
Cycle(n) == [i \in 1..n |-> ((i - 1) % Cardinality(ValidatorId)) + 1]
DisableRosters == {Cycle(n) : n \in 1..MaxActive} \cup {<<1, 2, 1>>}
DisableAnswers == {None} \cup {Some(r) : r \in DisableRosters}
GenesisOfDisable ==
  /\ ~built
  /\ \E new_session_0 \in DisableAnswers, new_session_1 \in DisableAnswers :
       GenesisBuild(<<<<1, 1, [id \in KeyTypeId |-> 1]>>>>, AccountId,
                    new_session_0, new_session_1)
RotateOfDisable == RotateSession(DisableAnswers)
DisableIndexUpTo == DisableIndex(0..MaxActive)
DisableAnyId == Disable(ValidatorId)

NextDisable == GenesisOfDisable \/ RotateOfDisable \/ DisableIndexUpTo \/ DisableAnyId
SpecDisable == Init /\ [][NextDisable]_vars

\* rosters of two: a genesis registering validator 1 or validators 1 and 2,
\* rotations where the SessionManager keeps the set or names validators 1 and 2,
\* registrations by accounts 1 and 2 of any bundle of raw keys 0 and 1 but the
\* default one, and purges by both
PairBundles == [KeyTypeId -> {0, 1}] \ {DefaultKeys}
PairAnswers == {None, Some(<<1, 2>>)}
GenesisOfPairs ==
  /\ ~built
  /\ \E config_keys \in {<<<<1, 1, [id \in KeyTypeId |-> 1]>>>>,
                          <<<<1, 1, [id \in KeyTypeId |-> 1]>>, <<2, 2, DefaultKeys>>>>},
        new_session_1 \in PairAnswers :
       GenesisBuild(config_keys, AccountId, None, new_session_1)
RotateOfPairs == RotateSession(PairAnswers)
SetKeysOfPairs == SetKeys({1, 2}, PairBundles, {TRUE})
PurgeKeysOfPairs == PurgeKeys({1, 2})

NextPairs == GenesisOfPairs \/ RotateOfPairs \/ SetKeysOfPairs \/ PurgeKeysOfPairs
SpecPairs == Init /\ [][NextPairs]_vars

\* reference counts: a genesis that registers no keys, so that every reference is
\* one taken by set_keys, then set_keys and purge_keys by accounts 1 and 3 (both
\* validator 1) and account 2 (validator 2) with bundles of raw keys 0 and 1
RefAccounts == {1, 2, 3}
GenesisOfRefs ==
  /\ ~built
  /\ GenesisBuild(<<>>, AccountId, Some(<<3>>), None)
SetKeysOfRefs == SetKeys(RefAccounts, [KeyTypeId -> {0, 1}], {TRUE})
PurgeKeysOfRefs == PurgeKeys(RefAccounts)

NextRefs == GenesisOfRefs \/ SetKeysOfRefs \/ PurgeKeysOfRefs
SpecRefs == Init /\ [][NextRefs]_vars

\* runtime upgrades: a genesis registering validators 1 and 2 with any bundles
\* that do not collide, rotations where the SessionManager keeps the set, and
\* upgrade_keys with a function that swaps the
\* two raw keys of a bundle, one that keeps the bundle, and one that gives
\* validator v the bundle of raw keys v mod 2
FreshKeys == [p \in ValidatorId \X Keys |-> [id \in KeyTypeId |-> p[1] % (MaxKey + 1)]]
GenesisOfUpgrade ==
  /\ ~built
  /\ \E config_keys \in SeqUpTo({<<v, v, k>> : v \in {1, 2}, k \in Keys}, MaxGenesis),
        new_session_1 \in {None, Some(<<2, 1>>)} :
       GenesisBuild(config_keys, AccountId, None, new_session_1)
RotateOfUpgrade == RotateSession({None})
UpgradeKeysOfUpgrade == UpgradeKeys({SwapKeys, SameKeys, FreshKeys})

NextUpgrade == GenesisOfUpgrade \/ RotateOfUpgrade \/ UpgradeKeysOfUpgrade
SpecUpgrade == Init /\ [][NextUpgrade]_vars

\* the justification subscription: one subscriber, justifications emitted before
\* and after it subscribes, a sink that may close at any time; the executor runs
\* the spawned task whenever it has something to handle
NextRpc == SubscribeJustifications \/ Notify \/ ForwardJustification \/ CloseSink
SpecRpc == Init /\ [][NextRpc]_vars /\ WF_vars(ForwardJustification)

\* the periodic policy: any period up to MaxPeriod (0 included) with any offset up
\* to MaxOffset, period 10 with offset 3, and period 101 without offset; after a
\* genesis with validator 1, the blocks are initialised one after the other and the
\* estimators are asked about any block
PolicyConfigs ==
  ((0..MaxPeriod) \X (0..MaxOffset)) \cup {<<10, 3>>, <<101, 0>>}
InitOfPolicy ==
  /\ InitStores
  /\ \E c \in PolicyConfigs : chain = [period |-> c[1], offset |-> c[2], now |-> 0]
GenesisOfPolicy ==
  /\ ~built
  /\ GenesisBuild(<<<<1, 1, [id \in KeyTypeId |-> 1]>>>>, AccountId, None, None)
InitializeBlock == OnInitialize({None})
ProgressAnyBlock == EstimateCurrentSessionProgress(0..MaxBlockNumber)
NextRotationAnyBlock == EstimateNextSessionRotation(0..MaxBlockNumber)

NextPolicy ==
  GenesisOfPolicy \/ InitializeBlock \/ ProgressAnyBlock \/ NextRotationAnyBlock
SpecPolicy == InitOfPolicy /\ [][NextPolicy]_vars


\* ================================================================== claims
\* the validator that owns (id, key) according to KeyOwner is someone else
OwnedByOther(ko, who, id, key) ==
  key_owner(ko, id, key) # None /\ key_owner(ko, id, key)[1] # who
\* some raw key of the bundle is owned by another validator
Collides(ko, who, keys) == \E id \in KeyTypeId : OwnedByOther(ko, who, id, get_raw(keys, id))

\* C1 (uniqueness): in every state reached by genesis registration, set_keys and
\* purge_keys, no two distinct validators have stored bundles with the same raw
\* key for the same key type, and KeyOwner names at most one validator per pair.
C1_Uniqueness ==
  /\ \A v \in ValidatorId, w \in ValidatorId, id \in KeyTypeId :
       (v # w /\ NextKeys[v] # None /\ NextKeys[w] # None)
         => get_raw(NextKeys[v][1], id) # get_raw(NextKeys[w][1], id)
  /\ \A p \in KeyTypeId \X RawKey :
       KeyOwner[p] = None \/ (Len(KeyOwner[p]) = 1 /\ KeyOwner[p][1] \in ValidatorId)
\* both validators hold a bundle, and the last call was a set_keys that another
\* owner's key made fail
C1_Witness ==
  /\ \A v \in {1, 2} : NextKeys[v] # None
  /\ result.op = "set_keys" /\ result.res = "DuplicatedKey"

\* C2 (duplicate-key rejection): a set_keys by validator B whose bundle holds a raw
\* key that KeyOwner gives to another validator A fails, with DuplicatedKey when
\* the proof is valid and the account can take a reference, and leaves NextKeys,
\* KeyOwner and the reference counts as they were.
C2_DuplicateRejected ==
  [][(/\ result'.op = "set_keys"
      /\ ValidatorIdOf(result'.args.account) # None
      /\ Collides(KeyOwner, ValidatorIdOf(result'.args.account)[1], result'.args.keys))
     => /\ result'.res # "Ok"
        /\ (result'.args.proof_ok /\ result'.args.can) => result'.res = "DuplicatedKey"
        /\ UNCHANGED <<NextKeys, KeyOwner, consumers>>]_vars
\* B, who has a bundle of its own, was refused a key that A still owns
C2_Witness ==
  /\ result.op = "set_keys" /\ result.res = "DuplicatedKey"
  /\ LET B == ValidatorIdOf(result.args.account)[1]
     IN  /\ NextKeys[B] # None
         /\ \E id \in KeyTypeId :
              /\ OwnedByOther(KeyOwner, B, id, get_raw(result.args.keys, id))
              /\ \E A \in ValidatorId \ {B} :
                   /\ NextKeys[A] # None
                   /\ get_raw(NextKeys[A][1], id) = get_raw(result.args.keys, id)

\* C3 (all or nothing): a set_keys that fails returns one of InvalidProof,
\* NoAssociatedValidatorId, NoAccount, DuplicatedKey and leaves NextKeys, KeyOwner
\* and every reference count unchanged.
C3_AllOrNothing ==
  [][(result'.op = "set_keys" /\ result'.res # "Ok")
     => /\ result'.res \in {"InvalidProof", "NoAssociatedValidatorId", "NoAccount",
                            "DuplicatedKey"}
        /\ UNCHANGED <<NextKeys, KeyOwner, consumers>>]_vars
\* a refused bundle of which one key type collides with another owner while
\* another key type is a new, unowned key for the caller
C3_Witness ==
  /\ result.op = "set_keys" /\ result.res = "DuplicatedKey"
  /\ LET B == ValidatorIdOf(result.args.account)[1]
     IN  /\ \E id \in KeyTypeId, jd \in KeyTypeId :
              /\ OwnedByOther(KeyOwner, B, id, get_raw(result.args.keys, id))
              /\ key_owner(KeyOwner, jd, get_raw(result.args.keys, jd)) = None
              /\ jd < id

\* C8 (round trip), as claimed: a successful set_keys followed by a successful
\* purge_keys of the same validator leaves KeyOwner and NextKeys as before both.
C8_RoundTripAnyState ==
  before.stage = 2 => (NextKeys = before.nk /\ KeyOwner = before.ko)
\* C8 amended: the same, provided the validator had no stored bundle before the
\* set_keys call.
C8_RoundTripFromNoKeys ==
  (before.stage = 2 /\ load_keys(before.nk, before.who) = None)
    => (NextKeys = before.nk /\ KeyOwner = before.ko)
\* a round trip by a validator without a bundle, while the other validator has one
C8_Witness ==
  /\ before.stage = 2
  /\ load_keys(before.nk, before.who) = None
  /\ \E w \in ValidatorId \ {before.who} : NextKeys[w] # None

\* C9 (idempotent replace): a successful set_keys leaves the submitted bundle as
\* the validator's entry of NextKeys and changes no other entry; the account's
\* reference count goes up by one exactly when the validator had no bundle, and no
\* other count changes; the same successful call made again changes no store.
C9_IdempotentReplace ==
  [][(result'.op = "set_keys" /\ result'.res = "Ok")
     => LET account == result'.args.account
            who == ValidatorIdOf(account)[1]
        IN  /\ NextKeys' = [NextKeys EXCEPT ![who] = Some(result'.args.keys)]
            /\ consumers' = IF load_keys(NextKeys, who) = None
                            THEN [consumers EXCEPT ![account] = @ + 1]
                            ELSE consumers
            /\ result = result' => UNCHANGED <<NextKeys, KeyOwner, consumers>>]_vars
\* the validator's bundle was replaced by a different one without a new reference
C9_Witness ==
  /\ result.op = "set_keys" /\ result.res = "Ok"
  /\ before.stage = 1
  /\ load_keys(before.nk, before.who) # None
  /\ load_keys(before.nk, before.who) # load_keys(NextKeys, before.who)
  /\ consumers[result.args.account] = 1

\* C10 (purge_keys): NoAssociatedValidatorId when the account has no validator id,
\* NoKeys when the validator has no bundle, both without any change; otherwise Ok,
\* the bundle is removed, the ownership entry of each of its keys is cleared and no
\* other, and the account's reference count goes down by one.
C10_Purge ==
  [][(result'.op = "purge_keys")
     => LET account == result'.args.account
            who == ValidatorIdOf(account)
        IN  IF who = None
            THEN result'.res = "NoAssociatedValidatorId"
                 /\ UNCHANGED <<NextKeys, KeyOwner, consumers>>
            ELSE IF load_keys(NextKeys, who[1]) = None
            THEN result'.res = "NoKeys" /\ UNCHANGED <<NextKeys, KeyOwner, consumers>>
            ELSE /\ result'.res = "Ok"
                 /\ NextKeys' = [NextKeys EXCEPT ![who[1]] = None]
                 /\ KeyOwner' =
                      [p \in KeyTypeId \X RawKey |->
                         IF p[2] = get_raw(load_keys(NextKeys, who[1])[1], p[1])
                         THEN None ELSE KeyOwner[p]]
                 /\ consumers' = [consumers EXCEPT ![account] = @ - 1]]_vars
\* a purge went through while the other validator keeps its bundle and its keys
C10_Witness ==
  /\ result.op = "purge_keys" /\ result.res = "Ok"
  /\ LET who == ValidatorIdOf(result.args.account)[1]
     IN  /\ NextKeys[who] = None
         /\ \E w \in ValidatorId \ {who} :
              /\ NextKeys[w] # None
              /\ \A id \in KeyTypeId :
                   key_owner(KeyOwner, id, get_raw(NextKeys[w][1], id)) = Some(w)

\* C4 (delay for keys): set_keys and purge_keys change neither the validator set,
\* nor the queued list, nor anything handed to observers; a rotation hands over as
\* the active list the list that was queued at the previous rotation (or at
\* genesis), makes its validators the validator set, and puts the bundles stored
\* now into the new queued list only.  So a bundle stored during session s is
\* queued by the rotation to s+1 and becomes active at the rotation to s+2.
C4_KeyDelay ==
  [][/\ result'.op \in {"set_keys", "purge_keys"}
          => (UNCHANGED <<Validators, QueuedKeys, announced>> /\ hook' = NoHook)
     /\ result'.op = "rotate_session"
          => /\ hook'.kind = "on_new_session"
             /\ hook'.validators = announced
             /\ Validators' = ValidatorsOf(announced)
             /\ QueuedKeys' = WithKeys(NextKeys, ValidatorsOf(QueuedKeys'))
             /\ hook'.queued_validators = QueuedKeys'
             /\ announced' = QueuedKeys']_vars
\* a rotation at which a validator is active with its earlier keys while the
\* bundle it has stored since is in the queued list
C4_Witness ==
  /\ result.op = "rotate_session"
  /\ \E i \in 1..Len(hook.validators), j \in 1..Len(hook.queued_validators) :
       /\ hook.validators[i][1] = hook.queued_validators[j][1]
       /\ hook.validators[i][2] # hook.queued_validators[j][2]
       /\ NextKeys[hook.validators[i][1]] = Some(hook.queued_validators[j][2])
       /\ QueuedKeys[j] = hook.queued_validators[j]

\* C5 (delay for rosters): the list the SessionManager returned for session i is
\* the validator set exactly while the session index is i; when it returned none
\* for session i, a rotation into session i leaves the validator set as it was;
\* nothing but genesis and rotation changes the validator set.
C5_RosterDelay ==
  [][/\ planned'.cur # None => Validators' = planned'.cur[1]
     /\ (result'.op = "rotate_session" /\ planned'.cur = None)
          => Validators' = Validators
     /\ result'.op \notin {"rotate_session", "genesis"}
          => UNCHANGED <<Validators, planned>>]_vars
\* session 2 or later runs with the list returned for it, while a different list
\* has been returned for the session after
C5_Witness ==
  /\ CurrentIndex >= 2
  /\ planned.cur # None /\ planned.next # None
  /\ planned.cur # planned.next
  /\ Validators = planned.cur[1]
  /\ result.op \in {"set_keys", "purge_keys"}

\* C6 (session index): the index is 0 at the start and equals the number of
\* rotate_session calls made, whatever other operations are made in between.
C6_IndexCountsRotations ==
  CurrentIndex = rotations
\* two rotations were made and then a validator of the set was disabled
C6_Witness ==
  /\ CurrentIndex = 2
  /\ result.op = "disable" /\ result.res \in {"Ok(true)", "Ok(false)"}
  /\ DisabledValidators # <<>>

C11_DisableIndexIdempotent ==
  [][result'.op = "disable_index"
       => LET i == result'.args.i
          IN  IF Contains(DisabledValidators, i)
              THEN /\ DisabledValidators' = DisabledValidators
                   /\ result'.res = "false"
                   /\ hook' = NoHook
              ELSE /\ hook' = [kind |-> "on_disabled", validator_index |-> i]
                   /\ Contains(DisabledValidators', i)]_vars
\* a repeated disable_index of an index of the set, while others are disabled too
C11_Witness ==
  /\ result.op = "disable_index" /\ result.res = "false" /\ hook = NoHook
  /\ Contains(DisabledValidators, result.args.i)
  /\ result.args.i < Len(Validators)
  /\ Len(DisabledValidators) >= 2

\* C12 (threshold rule): disable_index(i) for an index not yet disabled adds one
\* entry and returns whether the length after that exceeds
\* DisabledValidatorsThreshold x len(Validators); with 3 validators and a
\* threshold of 1/3, disabling index 0 returns false and then index 1 returns true.
C12_ThresholdRule ==
  [][(result'.op = "disable_index" /\ ~Contains(DisabledValidators, result'.args.i))
       => /\ Len(DisabledValidators') = Len(DisabledValidators) + 1
          /\ (result'.res = "true") = (Len(DisabledValidators') >
                              PerbillMul(DisabledValidatorsThreshold, Len(Validators)))
          /\ result'.res \in {"true", "false"}
          /\ (Len(Validators) = 3 /\ DisabledValidators = <<>> /\ result'.args.i = 0)
                => result'.res = "false"
          /\ (Len(Validators) = 3 /\ DisabledValidators = <<0>> /\ result'.args.i = 1)
                => result'.res = "true"]_vars
\* of three validators, index 0 was disabled and index 1 has now been: true
C12_Witness ==
  /\ result.op = "disable_index" /\ result.args.i = 1 /\ result.res = "true"
  /\ Validators = <<1, 2, 3>>
  /\ DisabledValidators = <<0, 1>>

\* C13 (disable reports the threshold): disable(c) of a validator of the set
\* returns Ok(true) whenever more than the threshold of the validators are
\* disabled once it has returned, also when c was disabled already.
C13_DisableReportsThreshold ==
  [][(/\ result'.op = "disable"
      /\ \E k \in 1..Len(Validators) : Validators[k] = result'.args.c
      /\ Len(DisabledValidators') >
            PerbillMul(DisabledValidatorsThreshold, Len(Validators')))
       => result'.res = "Ok(true)"]_vars

\* C14 (disable by id): disable(c) for an id that is not in Validators returns the
\* error, leaves DisabledValidators alone and calls no hook; for an id in
\* Validators it stores, returns and announces what disable_index does for the
\* index of the first entry equal to c.
C14_DisableById ==
  [][result'.op = "disable"
       => LET c == result'.args.c
              hits == {k \in 1..Len(Validators) : Validators[k] = c}
          IN  IF hits = {}
              THEN /\ result'.res = "Err"
                   /\ DisabledValidators' = DisabledValidators
                   /\ hook' = NoHook
              ELSE LET first == (CHOOSE k \in hits : \A j \in hits : k <= j) - 1
                       r == disable_index(DisabledValidators, Validators, first)
                   IN  /\ result'.res = (IF r.threshold_reached THEN "Ok(true)"
                                         ELSE "Ok(false)")
                       /\ DisabledValidators' = r.disabled
                       /\ hook' = IF r.fire_event
                                  THEN [kind |-> "on_disabled", validator_index |-> first]
                                  ELSE NoHook]_vars
\* validator 1 is in the set twice and disable(1) has disabled index 0 only
C14_Witness ==
  /\ result.op = "disable" /\ result.args.c = 1
  /\ Validators = <<1, 2, 1>>
  /\ DisabledValidators = <<0>>
  /\ hook = [kind |-> "on_disabled", validator_index |-> 0]

\* C15 (disabled indices are valid): every entry of DisabledValidators is an
\* index into Validators, that is below its length.
C15_DisabledAreIndices ==
  \A k \in 1..Len(DisabledValidators) : DisabledValidators[k] < Len(Validators)

\* C16 (reset of the disabled set): rotate_session leaves DisabledValidators empty
\* when QueuedChanged was true as the rotation started, and exactly as it was when
\* QueuedChanged was false.
C16_ResetOnChanged ==
  [][result'.op = "rotate_session"
       => DisabledValidators' = IF QueuedChanged THEN <<>> ELSE DisabledValidators]_vars
\* a rotation that kept a disabled index although the set it queued has changed
C16_Witness ==
  /\ result.op = "rotate_session"
  /\ DisabledValidators # <<>>
  /\ QueuedChanged

\* C17 (calls to the SessionManager): over genesis and any number of rotations,
\* every end_session(i - 1) comes after a new_session(i), and each new_session is
\* called with a greater index than every new_session before it.
C17_ProviderCallOrder ==
  /\ \A k \in 1..Len(trace) :
       trace[k][1] = "end_session"
         => \E m \in 1..(k - 1) : trace[m] = <<"new_session", trace[k][2] + 1>>
  /\ \A k \in 1..Len(trace), m \in 1..Len(trace) :
       (k < m /\ trace[k][1] = "new_session" /\ trace[m][1] = "new_session")
         => trace[k][2] < trace[m][2]
\* two rotations have been made: sessions 0 and 1 were ended, session 3 asked for
C17_Witness ==
  /\ \E k \in 1..Len(trace) : trace[k] = <<"end_session", 1>>
  /\ \E k \in 1..Len(trace) : trace[k] = <<"new_session", 3>>

\* C18 (hand-over to the SessionHandler): on_new_session receives as changed flag
\* the QueuedChanged stored before this rotation, as active list the QueuedKeys
\* stored before this rotation, and as queued list the QueuedKeys this rotation
\* stores; its active list is the queued list of the rotation before (or the list
\* of on_genesis_session).
C18_HandOver ==
  [][result'.op = "rotate_session"
       => /\ hook'.kind = "on_new_session"
          /\ hook'.changed = QueuedChanged
          /\ hook'.validators = QueuedKeys
          /\ hook'.queued_validators = QueuedKeys'
          /\ hook'.validators = announced]_vars
\* a rotation that handed over another flag than the one it stored, and another
\* active list than the one it queued
C18_Witness ==
  /\ result.op = "rotate_session"
  /\ rotations >= 2
  /\ hook.changed # QueuedChanged
  /\ hook.validators # hook.queued_validators

\* C19 (changed flag): for any sequence of set_keys, purge_keys and rotations,
\* when the active list handed to on_new_session differs from the active list of
\* the on_new_session call before (from the list of on_genesis_session at the
\* first rotation), the changed flag of the call is true.
C19_ChangedWhenActiveDiffers ==
  [][(result'.op = "rotate_session" /\ hook'.validators # last_active)
       => hook'.changed = TRUE]_vars
\* a rotation whose active list differs from the one before by stored keys only:
\* the SessionManager had returned no list for this session
C19_Witness ==
  /\ result.op = "rotate_session"
  /\ hook.changed
  /\ planned.cur = None
  /\ last_active = hook.validators
  /\ rotations >= 2

\* C20 (genesis list): the validators of the list given to on_genesis_session are
\* the validator set of session 0, and the first on_new_session passes the same
\* list as its active list.
C20_GenesisListInUse ==
  [][/\ result'.op = "genesis"
          => (hook'.kind = "on_genesis_session"
              /\ ValidatorsOf(hook'.validators) = Validators')
     /\ (result'.op = "rotate_session" /\ rotations = 0)
          => hook'.validators = last_active]_vars


\* the blocks before block n that end a session under a period >= 1
DueBlocks(period, offset, n) ==
  {b \in 0..(n - 1) : b >= offset /\ ((b - offset) % period) = 0}

\* C21: under the periodic policy with a period of at least 1, the initialisation of
\* block n runs rotate_session exactly once when n >= offset and (n - offset) mod
\* period = 0, and changes no session state otherwise; so the rotations made so far
\* are the blocks offset, offset + period, offset + 2 * period, ... (with period 10
\* and offset 3: a rotation at 3 and at 13, none at 12)
C21_PeriodicRotation ==
  [][(chain'.now = chain.now + 1 /\ chain.period >= 1) =>
       LET n == chain.now
           due == n >= chain.offset /\ ((n - chain.offset) % chain.period) = 0
           r == rotate_session(NextKeys, CurrentIndex, QueuedChanged, QueuedKeys,
                               DisabledValidators, None)
       IN  /\ result'.res # "panic"
           /\ due => /\ rotations' = rotations + 1
                      /\ CurrentIndex' = CurrentIndex + 1
                      /\ trace' = trace \o ManagerCalls(SessionSteps(CurrentIndex, QueuedChanged))
                      /\ sessionVars' = <<r.Validators, r.CurrentIndex, r.QueuedChanged,
                                          r.QueuedKeys, r.DisabledValidators>>
           /\ ~due => UNCHANGED <<sessionVars, keyVars, rotations, trace>>
           /\ rotations' = Cardinality(DueBlocks(chain.period, chain.offset, n + 1))
           /\ (chain.period = 10 /\ chain.offset = 3) =>
                 /\ n \in {3, 13} => rotations' = rotations + 1
                 /\ n = 12 => rotations' = rotations
     ]_vars
C21_Witness ==
  /\ chain = [period |-> 10, offset |-> 3, now |-> 14]
  /\ rotations = 2
  /\ CurrentIndex = 2

\* C22: for every period >= 1, every offset and every block, the progress estimate
\* is never 0%, and on the last block of a session (now >= offset and (now - offset)
\* mod period = period - 1) it is exactly 100%
C22_ProgressNeverZero ==
  (result.op = "estimate_current_session_progress" /\ chain.period >= 1) =>
    /\ result.res = "Some"
    /\ result.args.percent # 0
    /\ (/\ result.args.now >= chain.offset
        /\ ((result.args.now - chain.offset) % chain.period) = chain.period - 1)
         => result.args.percent = 100

\* C23: for every configuration with offset >= period and every block number,
\* should_end_session (called by on_initialize), estimate_current_session_progress
\* and estimate_next_session_rotation return without a panic
C23_DegenerateNoPanic ==
  (/\ chain.offset >= chain.period
   /\ result.op \in {"on_initialize", "estimate_current_session_progress",
                     "estimate_next_session_rotation"})
    => result.res # "panic"

\* the validators with a stored bundle, and the bundle `upgrade` makes of it
Stored(nk) == {v \in ValidatorId : nk[v] # None}
Migrated(nk, upgrade, v) == upgrade[<<v, nk[v][1]>>]
\* the migrated bundles have raw keys unique across validators for every key type
MigratedUnique(nk, upgrade) ==
  \A v, w \in Stored(nk) : \A id \in KeyTypeId :
    v # w => get_raw(Migrated(nk, upgrade, v), id) # get_raw(Migrated(nk, upgrade, w), id)

\* C24: upgrade_keys keeps one owner per key: when the migrated bundles have raw
\* keys unique across validators for every key type, then after the call every raw
\* key of every validator's migrated bundle is owned by that validator, every entry
\* of QueuedKeys carries the migrated bundle of its entry, and no ownership entry
\* of an old bundle is left unless it is a key of a migrated bundle
C24_UpgradeKeepsOwners ==
  [][(result'.op = "upgrade_keys" /\ MigratedUnique(NextKeys, result'.args.upgrade)) =>
       LET upgrade == result'.args.upgrade
       IN  /\ \A v \in Stored(NextKeys) : \A id \in KeyTypeId :
                key_owner(KeyOwner', id, get_raw(Migrated(NextKeys, upgrade, v), id))
                  = Some(v)
           /\ Len(QueuedKeys') = Len(QueuedKeys)
           /\ \A k \in 1..Len(QueuedKeys) :
                QueuedKeys'[k] = <<QueuedKeys[k][1],
                                   upgrade[<<QueuedKeys[k][1], QueuedKeys[k][2]>>]>>
           /\ \A v \in Stored(NextKeys) : \A id \in KeyTypeId :
                key_owner(KeyOwner', id, get_raw(NextKeys[v][1], id)) # None
                  => \E w \in Stored(NextKeys) :
                       get_raw(Migrated(NextKeys, upgrade, w), id)
                         = get_raw(NextKeys[v][1], id)
     ]_vars

\* the lists of (validator, bundle) the state holds: QueuedKeys and the lists last
\* handed to the SessionHandler
HandedLists ==
  {QueuedKeys}
    \cup (IF hook.kind = "on_genesis_session" THEN {hook.validators} ELSE {})
    \cup (IF hook.kind = "on_new_session"
          THEN {hook.validators, hook.queued_validators} ELSE {})
\* the pairs of entries of `list` of two distinct validators that carry the same
\* raw key for some key type
SharedKey(list) ==
  {p \in (1..Len(list)) \X (1..Len(list)) :
     /\ list[p[1]][1] # list[p[2]][1]
     /\ \E id \in KeyTypeId : get_raw(list[p[1]][2], id) = get_raw(list[p[2]][2], id)}

\* C25: in every reachable state no two distinct validators in QueuedKeys, or in the
\* active and queued lists handed to the SessionHandler, carry the same raw key for
\* the same key type
C25_QueuedInjective == \A list \in HandedLists : SharedKey(list) = {}

\* C25, amended: after any sequence of genesis build, set_keys, purge_keys and
\* rotate_session, two distinct validators in QueuedKeys, or in a list handed to
\* the SessionHandler, carry the same raw key for the same key type only if one of
\* the two carries the default bundle (as every validator without a stored bundle
\* does)
C25_InjectiveButDefault ==
  \A list \in HandedLists : \A p \in SharedKey(list) :
    list[p[1]][2] = DefaultKeys \/ list[p[2]][2] = DefaultKeys
C25_Witness ==
  /\ result.op = "rotate_session"
  /\ Len(QueuedKeys) = 2
  /\ QueuedKeys[1][1] # QueuedKeys[2][1]
  /\ QueuedKeys[1][2] # DefaultKeys
  /\ QueuedKeys[2][2] # DefaultKeys
  /\ \E id \in KeyTypeId : get_raw(QueuedKeys[1][2], id) = 0

\* C26: after any sequence of disable_index, disable and rotate_session the list of
\* disabled indices is strictly ascending: sorted and without duplicates
C26_DisabledAscending ==
  \A k \in 1..(Len(DisabledValidators) - 1) :
    DisabledValidators[k] < DisabledValidators[k + 1]
\* an index was inserted in front of a larger one
C26_Witness ==
  /\ result.op \in {"disable_index", "disable"}
  /\ hook.kind = "on_disabled"
  /\ Len(DisabledValidators) >= 2
  /\ DisabledValidators[1] = hook.validator_index

\* the place of the step called `name` in `steps`, 0 when it is not there
StepAt(steps, name) ==
  IF \E k \in 1..Len(steps) : steps[k][1] = name
  THEN CHOOSE k \in 1..Len(steps) : steps[k][1] = name
  ELSE 0
StepCount(steps, name) == Cardinality({k \in 1..Len(steps) : steps[k][1] = name})
\* the steps of one rotate_session in the order they are to happen
RotationOrder ==
  <<"on_before_session_ending", "end_session", "put_Validators", "put_CurrentIndex",
    "start_session", "new_session", "put_QueuedKeys", "put_QueuedChanged",
    "deposit_event_NewSession", "on_new_session">>

\* C27: within one rotate_session started at index s the visible steps happen in
\* this order: on_before_session_ending, end_session(s), the validators of
\* QueuedKeys become the validators (and the disabled list is emptied if due), the
\* index s + 1 is stored, start_session(s + 1), new_session(s + 2), the new
\* QueuedKeys and QueuedChanged are stored, NewSession(s + 1) is deposited exactly
\* once, and on_new_session comes last
C27_RotationOrder ==
  [][result'.op = "rotate_session" =>
       LET steps == result'.steps
           s == CurrentIndex
       IN  /\ \A k \in 1..Len(RotationOrder) : StepCount(steps, RotationOrder[k]) = 1
           /\ \A k \in 1..(Len(RotationOrder) - 1) :
                StepAt(steps, RotationOrder[k]) < StepAt(steps, RotationOrder[k + 1])
           /\ StepAt(steps, "on_before_session_ending") = 1
           /\ StepAt(steps, "on_new_session") = Len(steps)
           /\ StepCount(steps, "take_DisabledValidators") = (IF QueuedChanged THEN 1 ELSE 0)
           /\ QueuedChanged =>
                /\ StepAt(steps, "put_Validators") < StepAt(steps, "take_DisabledValidators")
                /\ StepAt(steps, "take_DisabledValidators") < StepAt(steps, "put_CurrentIndex")
           /\ steps[StepAt(steps, "end_session")][2] = s
           /\ steps[StepAt(steps, "put_CurrentIndex")][2] = s + 1
           /\ steps[StepAt(steps, "start_session")][2] = s + 1
           /\ steps[StepAt(steps, "new_session")][2] = s + 2
           /\ steps[StepAt(steps, "deposit_event_NewSession")][2] = s + 1
           /\ Validators' = ValidatorsOf(QueuedKeys)
           /\ CurrentIndex' = s + 1
     ]_vars
\* a rotation that also empties the disabled list
C27_Witness ==
  /\ result.op = "rotate_session"
  /\ StepCount(result.steps, "take_DisabledValidators") = 1
  /\ CurrentIndex = 2

\* C28: the QueuedChanged a rotation stores is true exactly when the SessionManager
\* returned a validator set for the session after next, or, when it returned none,
\* the bundle now stored for some validator of the next set (the default bundle if
\* none is stored) differs from the bundle at the same position of the previous
\* QueuedKeys; the QueuedChanged read at the start has no part in it
C28_QueuedChangedRule ==
  [][result'.op = "rotate_session" =>
       QueuedChanged' =
         (\/ planned'.next # None
          \/ \E i \in 1..Len(QueuedKeys) :
               unwrap_or_default(load_keys(NextKeys, QueuedKeys[i][1])) # QueuedKeys[i][2])
     ]_vars
\* a rotation that read a set flag and stores a cleared one
C28_Witness ==
  /\ result.op = "rotate_session"
  /\ hook.changed
  /\ ~QueuedChanged
  /\ rotations >= 2

\* C29: set_keys and purge_keys change only NextKeys, KeyOwner and the reference
\* counts, never the validators, QueuedKeys, QueuedChanged, the session index or the
\* disabled list; rotate_session, disable and disable_index never change NextKeys or
\* KeyOwner; disable and disable_index change nothing but the disabled list
C29_Frames ==
  [][/\ result'.op \in {"set_keys", "purge_keys"} =>
          UNCHANGED <<Validators, QueuedKeys, QueuedChanged, CurrentIndex,
                      DisabledValidators>>
     /\ result'.op \in {"rotate_session", "disable", "disable_index"} =>
          UNCHANGED <<NextKeys, KeyOwner>>
     /\ result'.op \in {"disable", "disable_index"} =>
          UNCHANGED <<NextKeys, KeyOwner, consumers, Validators, QueuedKeys, QueuedChanged,
                      CurrentIndex>>
    ]_vars
\* a purge left the purged validator's bundle in QueuedKeys
C29_Witness ==
  /\ result.op = "purge_keys"
  /\ result.res = "Ok"
  /\ NextKeys[1] = None
  /\ \E k \in 1..Len(QueuedKeys) : QueuedKeys[k][1] = 1 /\ QueuedKeys[k][2] # DefaultKeys

\* C30: after any sequence of genesis registration, set_keys and purge_keys, the
\* owner recorded for key type T and raw key K is validator v exactly when v has a
\* stored bundle whose raw key for T is K
C30_OwnersMirrorBundles ==
  \A id \in KeyTypeId : \A key_data \in RawKey : \A v \in ValidatorId :
    (key_owner(KeyOwner, id, key_data) = Some(v))
      <=> (load_keys(NextKeys, v) # None /\ get_raw(load_keys(NextKeys, v)[1], id) = key_data)
\* a validator replaced a stored bundle by one with another raw key for a key type
C30_Witness ==
  /\ result.op = "set_keys"
  /\ result.res = "Ok"
  /\ before.stage = 1
  /\ before.nk[before.who] # None
  /\ \E id \in KeyTypeId :
       get_raw(before.nk[before.who][1], id) # get_raw(NextKeys[before.who][1], id)

\* C31: in every reachable state, the one right after genesis included, a false
\* QueuedChanged implies that the validators of QueuedKeys are the active
\* validators in the same order, so that a rotation that keeps the disabled list
\* never changes which validator a disabled index stands for
C31_UnchangedKeepsRoster ==
  ~QueuedChanged => ValidatorsOf(QueuedKeys) = Validators

\* C32: for every account and every sequence of set_keys and purge_keys by any
\* accounts, several of which may convert to one validator, purge_keys never
\* releases more references of the account than set_keys took for it, and the
\* account holds a reference exactly while its validator has a stored bundle
C32_ReferencesBalanced ==
  built =>
    \A account \in AccountId :
      /\ consumers[account] >= 0
      /\ ValidatorIdOf(account) # None =>
           ((consumers[account] > 0)
              <=> (load_keys(NextKeys, ValidatorIdOf(account)[1]) # None))

\* the blocks after `now`, up to the largest block number, that end a session
RotatingAfter(period, offset, now) ==
  {b \in (now + 1)..MaxBlockNumber : should_end_session(period, offset, b).value}
Smallest(S) == CHOOSE b \in S : \A c \in S : b <= c

\* C33: for every period >= 1, offset and block now, estimate_next_session_rotation
\* gives the smallest block after now at which should_end_session is true (where
\* there is one among the block numbers); on every block where the session rotates
\* the estimate is now + period
C33_EstimateIsNextRotation ==
  (/\ result.op = "estimate_next_session_rotation"
   /\ chain.period >= 1
   /\ RotatingAfter(chain.period, chain.offset, result.args.now) # {})
    => /\ result.res = "Some"
       /\ result.args.next
            = Smallest(RotatingAfter(chain.period, chain.offset, result.args.now))
       /\ should_end_session(chain.period, chain.offset, result.args.now).value
            => result.args.next = result.args.now + chain.period

\* C33, amended: the same for every block now other than the offset; at now = offset,
\* the block of the first rotation, the estimate is the offset itself
C33_EstimateButAtOffset ==
  (/\ result.op = "estimate_next_session_rotation"
   /\ chain.period >= 1
   /\ RotatingAfter(chain.period, chain.offset, result.args.now) # {})
    => /\ result.res = "Some"
       /\ result.args.now # chain.offset =>
            /\ result.args.next
                 = Smallest(RotatingAfter(chain.period, chain.offset, result.args.now))
            /\ should_end_session(chain.period, chain.offset, result.args.now).value
                 => result.args.next = result.args.now + chain.period
       /\ result.args.now = chain.offset => result.args.next = chain.offset
\* an estimate on a rotating block after the first
C33_Witness ==
  /\ result.op = "estimate_next_session_rotation"
  /\ chain.period = MaxPeriod
  /\ result.args.now > chain.offset
  /\ should_end_session(chain.period, chain.offset, result.args.now).value
  /\ result.args.next = result.args.now + chain.period

\* the entries of a list
Entries(list) == {list[k] : k \in 1..Len(list)}

\* C34: a bundle K that validator v has stored when the rotation to session s + 1
\* is made (registered by a set_keys during session s or before, and not replaced
\* or purged since) is queued by that rotation if v is in the set it queues; and
\* every (v, K) queued by one rotation is, at the next rotation, in the active list
\* handed to on_new_session, with v among the validators, whatever v registers or
\* purges in between
C34_BoundedActivation ==
  [][/\ result'.op = "rotate_session" =>
          /\ \A v \in Entries(ValidatorsOf(QueuedKeys')) :
               load_keys(NextKeys, v) # None
                 => <<v, load_keys(NextKeys, v)[1]>> \in Entries(announced')
          /\ \A e \in Entries(announced) :
               /\ e[1] \in Entries(Validators')
               /\ e \in Entries(hook'.validators)
     /\ result'.op \in {"set_keys", "purge_keys"} => announced' = announced
    ]_vars
\* validator 2, whose only bundles come from set_keys, is active with the bundle it
\* registered two sessions ago after it has purged or replaced it
C34_Witness ==
  /\ result.op = "rotate_session"
  /\ CurrentIndex >= 2
  /\ 2 \in Entries(Validators)
  /\ \E e \in Entries(hook.validators) :
       /\ e[1] = 2
       /\ e[2] # DefaultKeys
       /\ load_keys(NextKeys, 2) # Some(e[2])

\* the notifications of a sequence of justifications
Notifications(justifications) ==
  [k \in 1..Len(justifications) |-> JustificationNotification_from(justifications[k])]
IsPrefix(a, b) == Len(a) <= Len(b) /\ \A k \in 1..Len(a) : a[k] = b[k]

\* C35: after subscribe_justifications every justification emitted on the stream is
\* forwarded to the subscriber's sink, in the order of emission and so that it
\* decodes to the justification emitted, for as long as sends succeed; after the
\* first send that fails no further justification is sent to the sink
C35_JustificationsForwarded ==
  /\ [](/\ IsPrefix(rpc.sent, Notifications(rpc.emitted))
        /\ \A k \in 1..Len(rpc.sent) : decode(rpc.sent[k].bytes) = rpc.emitted[k]
        /\ IsPrefix(rpc.sent, rpc.calls)
        /\ Len(rpc.calls) = Len(rpc.sent) + (IF rpc.task = "ended" THEN 1 ELSE 0))
  /\ [][Len(rpc.calls) > Len(rpc.sent) => rpc'.calls = rpc.calls /\ rpc'.sent = rpc.sent]_vars
  /\ \A n \in 1..MaxEmit :
       (Len(rpc.emitted) >= n) ~> (Len(rpc.sent) >= n \/ ~rpc.sink_open)
\* two different justifications were forwarded, then a send failed and a later
\* justification was not sent
C35_Witness ==
  /\ rpc.task = "ended"
  /\ Len(rpc.sent) >= 2
  /\ rpc.sent[1] # rpc.sent[2]
  /\ Len(rpc.emitted) > Len(rpc.calls)

=============================================================================
